---- MODULE Spec2Model ----
(***************************************************************************)
(* Model of src/src/components/ChatInterface.tsx: the ChatInterface        *)
(* component's state (useState cells), its handlers, the effects keyed on  *)
(* chatModel and on sessionId, and the external collaborators it talks to  *)
(* (history fetch, send call, delivery channel, backend store).            *)
(*                                                                         *)
(* JavaScript runs each handler to completion: a handler or an effect      *)
(* that makes several calls in program order is modelled as a chain of     *)
(* steps linked by pc, and nothing else is enabled while pc # "idle".      *)
(* State setters are applied in program order at the call.                 *)
(***************************************************************************)
EXTENDS Integers, Sequences, FiniteSets, Bags, TLC

VARIABLES sessionId, messages, inputValue, isLoading, localStorage,
          subscription, subs, loads, requests, db, uuidCount,
          userMessageObj, pc, last, chatModel, modelVersion

vars == <<sessionId, messages, inputValue, isLoading, localStorage,
          subscription, subs, loads, requests, db, uuidCount,
          userMessageObj, pc, last, chatModel, modelVersion>>

\* the model selection (lines 24-25)
modelVars == <<chatModel, modelVersion>>

(* ------------------------------ bounds -------------------------------- *)

\* uuidv4() calls made in one run (new sessions and local message ids)
MaxUuid == 2
\* getMessages calls in flight at once
MaxLoads == 2

(* ------------------------------ values -------------------------------- *)

\* uuidv4(): the n-th value produced; values never repeat
uuidv4(n) == <<"u", n>>

\* sessions that already exist in the store and are listed in the sidebar
ExistingSessions == {<<"s", 1>>}

\* texts the user can type; a text is a sequence of characters
Texts == {<<>>, <<" ">>, <<" ", "a">>}

\* String.prototype.trim(): strips leading and trailing whitespace
RECURSIVE trimStart(_)
trimStart(s) == IF s # <<>> /\ Head(s) = " " THEN trimStart(Tail(s)) ELSE s

RECURSIVE trimEnd(_)
trimEnd(s) ==
    IF s # <<>> /\ s[Len(s)] = " " THEN trimEnd(SubSeq(s, 1, Len(s) - 1)) ELSE s

trim(s) == trimEnd(trimStart(s))

\* UserMessage: { id, session_id, message: { content, type } }
UserMessage(id, sid, content, type) ==
    [id |-> id, session_id |-> sid,
     message |-> [content |-> content, type |-> type]]

NoItem == <<"none", 0>>
NoSub == <<"nosub", 0>>
NoMsg == UserMessage(<<"nomsg", 0>>, NoItem, <<>>, "none")

\* rows the store holds before the component is constructed
InitialDb == << UserMessage(<<"p", 1>>, <<"s", 1>>, <<"r">>, "ai") >>

\* getMessages(sid): the ordered history of one session
history(rows, sid) == SelectSeq(rows, LAMBDA r : r.session_id = sid)

Ids(log) == {log[i].id : i \in 1..Len(log)}

\* what an action records about itself: its name and argument, and for the
\* operations of the request cycle and the session switches the log, the
\* gate and the session it started from
Snapshots == {"submit", "send", "deliver", "sendFailed", "selectSession",
              "newConversation", "setFamily", "setVersion",
              "loadResolved", "loadFailed"}

Did(op, arg) ==
    [op |-> op, arg |-> arg,
     messages |-> IF op \in Snapshots THEN messages ELSE <<>>,
     isLoading |-> IF op \in Snapshots THEN isLoading ELSE FALSE,
     sessionId |-> IF op \in Snapshots THEN sessionId ELSE NoItem,
     inputValue |-> IF op \in Snapshots THEN inputValue ELSE <<>>,
     nreq |-> IF op \in Snapshots THEN Len(requests) ELSE 0,
     chatModel |-> IF op \in Snapshots THEN chatModel ELSE "",
     modelVersion |-> IF op \in Snapshots THEN modelVersion ELSE ""]

(* ------------------------------- Init --------------------------------- *)

\* useState initializers (lines 15-25); the effects of the mount are pending
Init ==
    /\ localStorage \in {NoItem, <<"s", 1>>}
    /\ sessionId = IF localStorage = NoItem THEN uuidv4(1) ELSE localStorage
    /\ uuidCount = IF localStorage = NoItem THEN 1 ELSE 0
    /\ messages = <<>>
    /\ inputValue = <<>>
    /\ isLoading = FALSE
    /\ subscription = NoSub
    /\ subs = {}
    /\ loads = EmptyBag
    /\ requests = <<>>
    /\ db = InitialDb
    /\ userMessageObj = NoMsg
    /\ chatModel = "OpenAI"
    /\ modelVersion = ""
    /\ pc = "mount"
    /\ last = [op |-> "mount", arg |-> NoMsg, messages |-> <<>>,
               isLoading |-> FALSE, sessionId |-> NoItem,
               inputValue |-> <<>>, nreq |-> 0,
               chatModel |-> "", modelVersion |-> ""]

(* ----------------------- effect keyed on chatModel -------------------- *)

\* the two values of chatModel (line 24)
Families == {"OpenAI", "Anthropic"}

\* mutant: both branches set the same version
defaultVersion_same(family) == "gpt-4o"

\* lines 30-34: the version the effect sets for a family
defaultVersion(family) ==
    IF family = "OpenAI" THEN "gpt-4o"
    ELSE IF family = "Anthropic" THEN "claude-3-7-sonnet-20250219"
    ELSE modelVersion

\* versions a caller can pass to setModelVersion: the two defaults and one
\* that is the default of no family
Versions == {defaultVersion(f) : f \in Families} \cup {"custom"}

\* lines 29-35: runs on mount (before the effect keyed on sessionId) and
\* after every change of chatModel
EffectModel ==
    /\ pc \in {"mount", "model"}
    /\ modelVersion' = defaultVersion(chatModel)
    /\ pc' = IF pc = "mount" THEN "load" ELSE "idle"
    /\ UNCHANGED <<sessionId, messages, inputValue, isLoading, localStorage,
                   subscription, subs, loads, requests, db, uuidCount,
                   userMessageObj, last, chatModel>>

\* lines 24, 199, 232: setChatModel(family); the effect keyed on chatModel
\* is scheduled only when the value changes
setChatModel(family) ==
    /\ pc = "idle"
    /\ chatModel' = family
    /\ pc' = IF family = chatModel THEN "idle" ELSE "model"
    /\ last' = Did("setFamily", family)
    /\ UNCHANGED <<sessionId, messages, inputValue, isLoading, localStorage,
                   subscription, subs, loads, requests, db, uuidCount,
                   userMessageObj, modelVersion>>

\* lines 25, 201: setModelVersion(version)
setModelVersion(version) ==
    /\ pc = "idle"
    /\ modelVersion' = version
    /\ last' = Did("setVersion", version)
    /\ UNCHANGED <<sessionId, messages, inputValue, isLoading, localStorage,
                   subscription, subs, loads, requests, db, uuidCount,
                   userMessageObj, pc, chatModel>>

(* ---------------------- effect keyed on sessionId --------------------- *)

\* mutant: the effect returns no cleanup, the old subscription stays live
cleanup_noUnsubscribe(live, handle) == live

\* lines 63-65: the cleanup of the previous run of the effect
cleanup(live, handle) == live \ {handle}

EffectCleanup ==
    /\ pc = "cleanup"
    /\ subs' = cleanup(subs, subscription)
    /\ subscription' = NoSub
    /\ pc' = "load"
    /\ UNCHANGED <<sessionId, messages, inputValue, isLoading, localStorage,
                   loads, requests, db, uuidCount, userMessageObj, last>>
    /\ UNCHANGED modelVars

\* lines 38-43: loadMessages() runs up to its await: getMessages is dispatched
EffectLoad ==
    /\ pc = "load"
    /\ loads' = loads (+) SetToBag({[session_id |-> sessionId,
                                      from |-> Len(history(db, sessionId))]})
    /\ pc' = "persist"
    /\ UNCHANGED <<sessionId, messages, inputValue, isLoading, localStorage,
                   subscription, subs, requests, db, uuidCount,
                   userMessageObj, last>>
    /\ UNCHANGED modelVars

\* mutant: the write is dropped
setItem_dropped(item, value) == item

\* line 46: the item "currentSessionId" after setItem
setItem(item, value) == value

\* line 46: localStorage.setItem("currentSessionId", sessionId)
EffectPersist ==
    /\ pc = "persist"
    /\ localStorage' = setItem(localStorage, sessionId)
    /\ pc' = "subscribe"
    /\ UNCHANGED <<sessionId, messages, inputValue, isLoading, subscription,
                   subs, loads, requests, db, uuidCount, userMessageObj, last>>
    /\ UNCHANGED modelVars

\* line 48: subscribeToMessages(sessionId, callback)
EffectSubscribe ==
    /\ pc = "subscribe"
    /\ subs' = subs \cup {sessionId}
    /\ subscription' = sessionId
    /\ pc' = "idle"
    /\ UNCHANGED <<sessionId, messages, inputValue, isLoading, localStorage,
                   loads, requests, db, uuidCount, userMessageObj, last>>
    /\ UNCHANGED modelVars

(* ------------------------------ handlers ------------------------------ *)

\* line 208: onChange={(e) => setInputValue(e.target.value)}. The disabled
\* attribute of line 211 belongs to the rendering; submit(text) is an entry
\* point in every state, so a text can be set in every state.
OnChange(text) ==
    /\ pc = "idle"
    /\ inputValue' = text
    /\ last' = Did("onChange", NoMsg)
    /\ UNCHANGED <<sessionId, messages, isLoading, localStorage, subscription,
                   subs, loads, requests, db, uuidCount, userMessageObj, pc>>
    /\ UNCHANGED modelVars

\* mutant: the guard forgets the gate
submitGuard_ignoresGate(value, loading) == trim(value) # <<>>

\* line 75: the handler goes on only when this holds
submitGuard(value, loading) == trim(value) # <<>> /\ ~loading

\* mutant: the new message is put in front
appendLocal_inFront(prev, m) == <<m>> \o prev

\* line 87: setMessages(prev => [...prev, userMessageObj])
appendLocal(prev, m) == Append(prev, m)

\* lines 72-75: handleSendMessage returns early
handleSendMessage_return ==
    /\ pc = "idle"
    /\ ~submitGuard(inputValue, isLoading)
    /\ last' = Did("submit", NoMsg)
    /\ UNCHANGED <<sessionId, messages, inputValue, isLoading, localStorage,
                   subscription, subs, loads, requests, db, uuidCount,
                   userMessageObj, pc>>
    /\ UNCHANGED modelVars

\* lines 77-90: the message object, the optimistic append, input cleared, gate set
handleSendMessage_append ==
    /\ pc = "idle"
    /\ submitGuard(inputValue, isLoading)
    /\ uuidCount < MaxUuid
    /\ LET m == UserMessage(uuidv4(uuidCount + 1), sessionId, inputValue, "human")
       IN /\ userMessageObj' = m
          /\ messages' = appendLocal(messages, m)
          /\ last' = Did("submit", m)
    /\ uuidCount' = uuidCount + 1
    /\ inputValue' = <<>>
    /\ isLoading' = TRUE
    /\ pc' = "send"
    /\ UNCHANGED <<sessionId, localStorage, subscription, subs, loads,
                   requests, db>>
    /\ UNCHANGED modelVars

\* mutant: the second branch fills the first branch's key
modelParams_sameKey(family, version) == [k \in {"openaiModel"} |-> version]

\* lines 92-97: the parameters built for the send call
modelParams(family, version) ==
    IF family = "OpenAI" THEN [k \in {"openaiModel"} |-> version]
    ELSE IF family = "Anthropic" THEN [k \in {"anthropicModel"} |-> version]
    ELSE [k \in {} |-> version]

\* line 99: sendMessage(inputValue, sessionId, chatModel, modelParams) is
\* dispatched; the handler suspends at the await
handleSendMessage_send ==
    /\ pc = "send"
    /\ requests' = Append(requests,
                          [id |-> userMessageObj.id,
                           session_id |-> userMessageObj.session_id,
                           text |-> userMessageObj.message.content,
                           chatModel |-> chatModel,
                           modelParams |-> modelParams(chatModel, modelVersion),
                           phase |-> "sent", answered |-> FALSE])
    /\ last' = Did("send", userMessageObj)
    /\ userMessageObj' = NoMsg
    /\ pc' = "idle"
    /\ UNCHANGED <<sessionId, messages, inputValue, isLoading, localStorage,
                   subscription, subs, loads, db, uuidCount>>
    /\ UNCHANGED modelVars

\* mutant: the failure branch forgets to clear the gate
gateAfterFailure_keepsGate(loading) == loading

\* lines 101-104: what the continuation does to the gate when success is false
gateAfterFailure(loading) == FALSE

\* lines 99-104: the send call resolves false (the backend did not accept
\* the request) and the handler's continuation runs
SendFailed(k) ==
    /\ pc = "idle"
    /\ k \in 1..Len(requests)
    /\ requests[k].phase = "sent"
    /\ requests' = [requests EXCEPT ![k].phase = "failed"]
    /\ isLoading' = gateAfterFailure(isLoading)
    /\ last' = Did("sendFailed",
                   UserMessage(requests[k].id, requests[k].session_id,
                               requests[k].text, "human"))
    /\ UNCHANGED <<sessionId, messages, inputValue, localStorage, subscription,
                   subs, loads, db, uuidCount, userMessageObj, pc>>
    /\ UNCHANGED modelVars

\* sessions the sidebar offers
SidebarSessions == ExistingSessions \cup {db[i].session_id : i \in 1..Len(db)}

\* what a change of sessionId schedules: the effect's cleanup, then the effect
afterSessionChange(old, new) == IF new = old THEN "idle" ELSE "cleanup"

\* mutant: the handler forgets setMessages([])
handleNewConversation_keepsLog ==
    /\ pc = "idle"
    /\ uuidCount < MaxUuid
    /\ BagCardinality(loads) < MaxLoads
    /\ sessionId' = uuidv4(uuidCount + 1)
    /\ uuidCount' = uuidCount + 1
    /\ pc' = IF sessionId' = sessionId THEN "idle" ELSE "cleanup"
    /\ last' = Did("newConversation", NoMsg)
    /\ UNCHANGED <<messages, inputValue, isLoading, localStorage, subscription,
                   subs, loads, requests, db, userMessageObj>>
    /\ UNCHANGED modelVars

\* lines 107-111
handleNewConversation ==
    /\ pc = "idle"
    /\ uuidCount < MaxUuid
    /\ BagCardinality(loads) < MaxLoads
    /\ sessionId' = uuidv4(uuidCount + 1)
    /\ uuidCount' = uuidCount + 1
    /\ messages' = <<>>
    /\ pc' = afterSessionChange(sessionId, sessionId')
    /\ last' = Did("newConversation", NoMsg)
    /\ UNCHANGED <<inputValue, isLoading, localStorage, subscription, subs,
                   loads, requests, db, userMessageObj>>
    /\ UNCHANGED modelVars

\* lines 113-115
handleSessionSelect(selectedSessionId) ==
    /\ pc = "idle"
    /\ selectedSessionId \in SidebarSessions
    /\ selectedSessionId = sessionId \/ BagCardinality(loads) < MaxLoads
    /\ sessionId' = selectedSessionId
    /\ pc' = afterSessionChange(sessionId, sessionId')
    /\ last' = Did("selectSession", NoMsg)
    /\ UNCHANGED <<messages, inputValue, isLoading, localStorage, subscription,
                   subs, loads, requests, db, uuidCount, userMessageObj>>
    /\ UNCHANGED modelVars

(* ----------------------- delivery channel callback -------------------- *)

\* mutant: no check for an entry with the same id
mergeRemote_noDedup(prev, newMessage) ==
    IF newMessage.message.type = "ai" THEN Append(prev, newMessage) ELSE prev

\* mutant: an entry with the same id is replaced by the new one, at the end
mergeRemote_moveToEnd(prev, newMessage) ==
    IF newMessage.message.type = "ai"
    THEN Append(SelectSeq(prev, LAMBDA m : m.id # newMessage.id), newMessage)
    ELSE prev

\* mutant: no check of the message type
mergeRemote_anyOrigin(prev, newMessage) ==
    IF \E i \in 1..Len(prev) : prev[i].id = newMessage.id
    THEN prev
    ELSE Append(prev, newMessage)

\* lines 51-59: the callback's update of the log
mergeRemote(prev, newMessage) ==
    IF newMessage.message.type = "ai"
    THEN IF \E i \in 1..Len(prev) : prev[i].id = newMessage.id
         THEN prev
         ELSE Append(prev, newMessage)
    ELSE prev

\* line 60: setIsLoading(false), whatever the message
gateAfterEvent(loading, newMessage) == FALSE

\* the request whose reply a row is
IsReplyOf(row, k) == row.id = <<"a", k>>

\* the channel emits a stored row of a subscribed session to the callback
\* (any number of times); lines 48-61 handle it
Deliver(i) ==
    /\ pc = "idle"
    /\ i \in 1..Len(db)
    /\ db[i].session_id \in subs
    /\ messages' = mergeRemote(messages, db[i])
    /\ isLoading' = gateAfterEvent(isLoading, db[i])
    /\ requests' = [k \in 1..Len(requests) |->
                       IF IsReplyOf(db[i], k)
                       THEN [requests[k] EXCEPT !.answered = TRUE]
                       ELSE requests[k]]
    /\ last' = Did("deliver", db[i])
    /\ UNCHANGED <<sessionId, inputValue, localStorage, subscription, subs,
                   loads, db, uuidCount, userMessageObj, pc>>
    /\ UNCHANGED modelVars

(* ------------------------------ history load -------------------------- *)

\* the fetch a load result belongs to, as the argument of a history record
LoadOf(load) == UserMessage(<<"load", 0>>, load.session_id, <<>>, "none")

\* mutant: the fetched rows are added to the log instead of replacing it
setFetched_keepsLog(prev, messagesData) == prev \o messagesData

\* line 40: setMessages(messagesData)
setFetched(prev, messagesData) == messagesData

\* lines 39-40: getMessages resolves with the rows it read (at some moment
\* between dispatch and now) and setMessages replaces the log
LoadResolve(load, n) ==
    /\ pc = "idle"
    /\ BagIn(load, loads)
    /\ n \in load.from..Len(history(db, load.session_id))
    /\ messages' = setFetched(messages,
                              SubSeq(history(db, load.session_id), 1, n))
    /\ loads' = loads (-) SetToBag({load})
    /\ last' = Did("loadResolved", LoadOf(load))
    /\ UNCHANGED <<sessionId, inputValue, isLoading, localStorage, subscription,
                   subs, requests, db, uuidCount, userMessageObj, pc>>
    /\ UNCHANGED modelVars

\* the fetch fails: getMessages resolves with an empty list
LoadFail(load) ==
    /\ pc = "idle"
    /\ BagIn(load, loads)
    /\ messages' = setFetched(messages, <<>>)
    /\ loads' = loads (-) SetToBag({load})
    /\ last' = Did("loadFailed", LoadOf(load))
    /\ UNCHANGED <<sessionId, inputValue, isLoading, localStorage, subscription,
                   subs, requests, db, uuidCount, userMessageObj, pc>>
    /\ UNCHANGED modelVars

(* -------------------------------- backend ----------------------------- *)

\* the backend accepts request k and stores its human message; the send call
\* resolves true, and its continuation (lines 101-104) then changes nothing
Accept(k) ==
    /\ pc = "idle"
    /\ k \in 1..Len(requests)
    /\ requests[k].phase = "sent"
    /\ db' = Append(db, UserMessage(<<"h", k>>, requests[k].session_id,
                                    requests[k].text, "human"))
    /\ requests' = [requests EXCEPT ![k].phase = "accepted"]
    /\ last' = Did("accept", NoMsg)
    /\ UNCHANGED <<sessionId, messages, inputValue, isLoading, localStorage,
                   subscription, subs, loads, uuidCount, userMessageObj, pc>>
    /\ UNCHANGED modelVars

\* the backend stores the model's reply to request k
Reply(k) ==
    /\ pc = "idle"
    /\ k \in 1..Len(requests)
    /\ requests[k].phase = "accepted"
    /\ db' = Append(db, UserMessage(<<"a", k>>, requests[k].session_id,
                                    <<"r">>, "ai"))
    /\ requests' = [requests EXCEPT ![k].phase = "replied"]
    /\ last' = Did("reply", NoMsg)
    /\ UNCHANGED <<sessionId, messages, inputValue, isLoading, localStorage,
                   subscription, subs, loads, uuidCount, userMessageObj, pc>>
    /\ UNCHANGED modelVars

(* ---------------------------- specification --------------------------- *)

Next ==
    \/ EffectModel
    \/ EffectCleanup
    \/ EffectLoad
    \/ EffectPersist
    \/ EffectSubscribe
    \/ \E text \in Texts : OnChange(text)
    \/ handleSendMessage_return
    \/ handleSendMessage_append
    \/ handleSendMessage_send
    \/ \E k \in 1..Len(requests) : SendFailed(k)
    \/ handleNewConversation
    \/ \E sid \in SidebarSessions : handleSessionSelect(sid)
    \/ \E i \in 1..Len(db) : Deliver(i)
    \/ \E load \in BagToSet(loads), n \in 0..Len(db) : LoadResolve(load, n)
    \/ \E load \in BagToSet(loads) : LoadFail(load)
    \/ \E k \in 1..Len(requests) : Accept(k)
    \/ \E k \in 1..Len(requests) : Reply(k)

\* Spec: the session, log and request machinery, with the model selection
\* left as the mount sets it
Spec == Init /\ [][Next]_vars

\* SpecModel: the model selection and the sends that carry it, in the session
\* of the mount
NextModel ==
    \/ EffectModel
    \/ EffectLoad
    \/ EffectPersist
    \/ EffectSubscribe
    \/ \E text \in Texts : OnChange(text)
    \/ handleSendMessage_return
    \/ handleSendMessage_append
    \/ handleSendMessage_send
    \/ \E k \in 1..Len(requests) : SendFailed(k)
    \/ \E family \in Families : setChatModel(family)
    \/ \E version \in Versions : setModelVersion(version)

SpecModel == Init /\ [][NextModel]_vars

\* the most rows the store can hold: the initial ones, and a human row and a
\* reply for every send
MaxRows == Len(InitialDb) + MaxUuid + MaxUuid

\* SpecFair: what the runtime schedules is eventually run. Effects and the
\* continuation of a handler run once scheduled and a fetch in flight
\* settles. A dispatched send is accepted or reports failure, an accepted
\* send is answered, and the channel delivers a row to a subscription that
\* is live again and again: these are strong fairness, so that no amount of
\* user activity postpones them for ever. No user action is required to
\* happen.
Fairness ==
    /\ WF_vars(EffectModel)
    /\ WF_vars(EffectCleanup)
    /\ WF_vars(EffectLoad)
    /\ WF_vars(EffectPersist)
    /\ WF_vars(EffectSubscribe)
    /\ WF_vars(handleSendMessage_append)
    /\ WF_vars(handleSendMessage_send)
    /\ WF_vars(\E load \in BagToSet(loads), n \in 0..Len(db) :
                   LoadResolve(load, n) \/ LoadFail(load))
    /\ \A k \in 1..MaxUuid : SF_vars(Accept(k) \/ SendFailed(k))
    /\ \A k \in 1..MaxUuid : SF_vars(Reply(k))
    /\ \A i \in 1..MaxRows : SF_vars(Deliver(i))

SpecFair == Init /\ [][Next]_vars /\ Fairness

(* -------------------------------- claims ------------------------------ *)

Awaiting == isLoading

Idle == ~isLoading

\* a send that has neither reported failure nor been answered by the
\* delivery of its ai-origin reply
Outstanding(r) == r.phase # "failed" /\ ~r.answered

Count(log, id) == Cardinality({i \in 1..Len(log) : log[i].id = id})

\* C1: a submit made while the coordinator is Awaiting is a no-op, whatever the
\* text: the log is unchanged, the state stays Awaiting, and no send call is
\* dispatched or about to be.
C1_SubmitWhileAwaitingIsNoOp ==
    (last.op = "submit" /\ last.isLoading) =>
        /\ messages = last.messages
        /\ Awaiting
        /\ Len(requests) = last.nreq
        /\ pc = "idle"
        /\ userMessageObj = NoMsg

\* a submit of a non-blank text was made while Awaiting and was refused
C1_Witness ==
    /\ last.op = "submit"
    /\ last.isLoading
    /\ trim(last.inputValue) # <<>>
    /\ last.messages # <<>>

\* C2: a send is never dispatched for a session while an earlier send for
\* that session has neither reported failure nor been answered by its
\* ai-origin delivery event.
C2_OneOutstandingPerSession ==
    last.op = "send" =>
        \A j \in 1..(Len(requests) - 1) :
            requests[j].session_id = requests[Len(requests)].session_id
                => ~Outstanding(requests[j])

\* C3: a delivery event with origin human received while Awaiting leaves the
\* coordinator Awaiting.
C3_HumanEventKeepsAwaiting ==
    (last.op = "deliver" /\ last.arg.message.type = "human" /\ last.isLoading)
        => Awaiting

\* C4: once a switch of the active session (selectSession to another session
\* or startNewConversation) is complete, the coordinator is Idle.
C4_SwitchDiscardsPending ==
    (/\ last.op \in {"selectSession", "newConversation"}
     /\ sessionId # last.sessionId
     /\ pc = "idle")
        => Idle

\* C5: no two entries of the message log share an id.
C5_LogIdsDistinct ==
    \A i, j \in 1..Len(messages) : messages[i].id = messages[j].id => i = j

\* an ai-origin message already in a log of several entries was delivered again
C5_Witness ==
    /\ last.op = "deliver"
    /\ last.arg.message.type = "ai"
    /\ last.arg.id \in Ids(last.messages)
    /\ Len(messages) >= 3
    /\ \E i \in 1..Len(messages) : messages[i].message.type = "human"

\* C6: after the delivery of an ai-origin message its id is in the log exactly
\* once, and when the id was already in the log the delivery leaves the log
\* unchanged (the entry stays where it was first inserted).
C6_MergeRemoteIdempotent ==
    (last.op = "deliver" /\ last.arg.message.type = "ai") =>
        /\ Count(messages, last.arg.id) = 1
        /\ last.arg.id \in Ids(last.messages) => messages = last.messages

\* a second delivery of an ai-origin message that is in the log, but not as
\* its last entry
C6_Witness ==
    /\ last.op = "deliver"
    /\ last.arg.message.type = "ai"
    /\ \E i \in 1..(Len(last.messages) - 1) : last.messages[i].id = last.arg.id

\* C7: a delivery event with origin human never changes the message log,
\* whether or not its id is in the log.
C7_HumanEventLeavesLog ==
    (last.op = "deliver" /\ last.arg.message.type = "human")
        => messages = last.messages

\* a human-origin event whose id is not in the log was delivered
C7_Witness ==
    /\ last.op = "deliver"
    /\ last.arg.message.type = "human"
    /\ last.arg.id \notin Ids(last.messages)
    /\ last.messages # <<>>

\* C8: a submit of a text that is non-blank after trimming, while Idle, appends
\* exactly one human-origin message (fresh id, the active session, content
\* the text as typed) at the end of the log and sets Awaiting; the message is
\* the last entry of the log when the send call is dispatched; a submit of an
\* empty or blank text changes nothing and dispatches no send.
C8_SubmitAppendsThenSends ==
    /\ (last.op = "submit" /\ ~last.isLoading /\ trim(last.inputValue) # <<>>) =>
          /\ messages = Append(last.messages, last.arg)
          /\ last.arg.id \notin Ids(last.messages) \cup Ids(db)
          /\ last.arg.session_id = sessionId
          /\ last.arg.message = [content |-> last.inputValue, type |-> "human"]
          /\ Awaiting
          /\ pc = "send"
          /\ Len(requests) = last.nreq
    /\ last.op = "send" =>
          /\ last.messages # <<>>
          /\ last.messages[Len(last.messages)] = last.arg
          /\ Len(requests) = last.nreq + 1
          /\ requests[Len(requests)].id = last.arg.id
          /\ messages = last.messages
    /\ (last.op = "submit" /\ trim(last.inputValue) = <<>>) =>
          /\ messages = last.messages
          /\ isLoading = last.isLoading
          /\ inputValue = last.inputValue
          /\ Len(requests) = last.nreq
          /\ pc = "idle"

\* the send call of a message typed with surrounding whitespace has been
\* dispatched from a log that already held other entries
C8_Witness ==
    /\ last.op = "send"
    /\ last.arg.message.content # trim(last.arg.message.content)
    /\ Len(messages) >= 2

\* C9: when the send call reports failure the coordinator is Idle, the failure
\* handling leaves the log as it was (the optimistic human message is not
\* rolled back and nothing is appended), and a submit of any non-blank text
\* is accepted again.
C9_SendFailureReturnsToIdle ==
    last.op = "sendFailed" =>
        /\ Idle
        /\ messages = last.messages
        /\ \A text \in Texts : trim(text) # <<>> => submitGuard(text, isLoading)

\* a send failed while Awaiting and its optimistic message is in the log
C9_Witness ==
    /\ last.op = "sendFailed"
    /\ last.isLoading
    /\ \E i \in 1..Len(messages) : messages[i] = last.arg

\* C10: every delivery event the callback handles belongs to the session that
\* is active when it arrives, so a reply of a previously active session is
\* never merged into the log after the switch.
C10_NoStrayReplyMerged ==
    last.op = "deliver" =>
        /\ last.arg.session_id = last.sessionId
        /\ \A i \in 1..Len(messages) :
               messages[i].session_id # sessionId
                   => \E j \in 1..Len(last.messages) :
                          last.messages[j] = messages[i]

\* the reply to a send of a previously active session was stored, the active
\* session is another one, events of the active session are delivered, and
\* the reply is not in the log
C10_Witness ==
    /\ last.op = "deliver"
    /\ \E k \in 1..Len(requests) :
          /\ requests[k].phase = "replied"
          /\ requests[k].session_id # sessionId
          /\ ~requests[k].answered
          /\ <<"a", k>> \notin Ids(messages)

\* C11: all entries of the log carry the same session_id, and once a switch
\* of the active session is complete the log holds no message of the
\* previous session.
C11_LogScopedToOneSession ==
    /\ \A i, j \in 1..Len(messages) :
           messages[i].session_id = messages[j].session_id
    /\ (/\ last.op \in {"selectSession", "newConversation"}
        /\ sessionId # last.sessionId
        /\ pc = "idle")
           => \A i \in 1..Len(messages) :
                  messages[i].session_id # last.sessionId

\* C12: startNewConversation from a non-empty log leaves the log empty and a
\* session id that differs from the prior id and from every session the store
\* knows; once its effect has run that id is the persisted active session id.
C12_NewConversationResets ==
    (last.op = "newConversation" /\ last.messages # <<>>) =>
        /\ messages = <<>>
        /\ sessionId # last.sessionId
        /\ sessionId \notin SidebarSessions
        /\ pc = "idle" => localStorage = sessionId

\* startNewConversation was called on a non-empty log and its effect has run
C12_Witness ==
    /\ last.op = "newConversation"
    /\ last.messages # <<>>
    /\ pc = "idle"
    /\ localStorage # last.sessionId

\* C13: at most one subscription is live at any time; when no handler or
\* effect is running it is the subscription of the active session; the
\* previous subscription is gone when the new one is established.
C13_OneLiveSubscription ==
    /\ Cardinality(subs) <= 1
    /\ pc = "idle" => subs = {sessionId}
    /\ pc \in {"mount", "load", "persist", "subscribe"} => subs = {}

\* the session was switched while a subscription was live, and the
\* subscription of the new session is the only one
C13_Witness ==
    /\ last.op \in {"selectSession", "newConversation"}
    /\ sessionId # last.sessionId
    /\ pc = "idle"
    /\ subs = {sessionId}
    /\ subscription = sessionId

\* the key of the send parameters that names a family
KeyOf(family) == IF family = "OpenAI" THEN "openaiModel" ELSE "anthropicModel"

\* the fixed default of each family (lines 31 and 33)
FixedDefault(family) ==
    IF family = "OpenAI" THEN "gpt-4o" ELSE "claude-3-7-sonnet-20250219"

\* C14 as claimed: after every setFamily(f) and its effect, version is the
\* default of f.
C14_SetFamilyAlwaysResets ==
    (last.op = "setFamily" /\ pc = "idle") =>
        /\ chatModel = last.arg
        /\ modelVersion = FixedDefault(last.arg)

\* C14 amended: after setFamily(f) and its effect the family is f; version is
\* the default of f when f differs from the family before the call, and is
\* left as it was when f is the family already selected.
C14_SetFamilyResetsOnChange ==
    (last.op = "setFamily" /\ pc = "idle") =>
        /\ chatModel = last.arg
        /\ last.arg # last.chatModel => modelVersion = FixedDefault(last.arg)
        /\ last.arg = last.chatModel => modelVersion = last.modelVersion

\* setFamily(B) was called after setVersion had set, under family A, a
\* version that is no default
C14_Witness ==
    /\ last.op = "setFamily"
    /\ pc = "idle"
    /\ last.arg = "Anthropic"
    /\ last.chatModel = "OpenAI"
    /\ last.modelVersion = "custom"

\* C15: the parameters of every dispatched send have exactly one key, the key
\* names the family selected when the submit was made, and its value is the
\* version selected then.
C15_SendCarriesOneKey ==
    /\ \A k \in 1..Len(requests) :
           /\ Cardinality(DOMAIN requests[k].modelParams) = 1
           /\ DOMAIN requests[k].modelParams = {KeyOf(requests[k].chatModel)}
    /\ last.op = "send" =>
           LET r == requests[Len(requests)] IN
           /\ r.chatModel = last.chatModel
           /\ DOMAIN r.modelParams = {KeyOf(last.chatModel)}
           /\ r.modelParams[KeyOf(last.chatModel)] = last.modelVersion

\* a send was dispatched under the second family with a version set by
\* setVersion
C15_Witness ==
    /\ last.op = "send"
    /\ last.chatModel = "Anthropic"
    /\ last.modelVersion = "custom"

C17_PersistedBeforeLoad ==
    /\ pc = "persist" => localStorage = sessionId
    /\ (pc = "idle" /\ subscription = sessionId) => localStorage = sessionId

\* C17 amended: the effect run of every change of the active session persists
\* the id after it has dispatched the history load and before it establishes
\* the subscription, so the id is persisted before any load result, delivery
\* event or user action is handled.
C17_PersistedBeforeSubscribe ==
    /\ pc \in {"subscribe", "idle"} => localStorage = sessionId
    /\ pc \in {"load", "persist"} =>
           \/ localStorage = NoItem
           \/ localStorage = sessionId
           \/ localStorage = last.sessionId

\* the session was changed, the load for the new id is dispatched and the id
\* is persisted, and the subscription for it is not yet established
C17_Witness ==
    /\ pc = "subscribe"
    /\ last.op \in {"selectSession", "newConversation"}
    /\ sessionId # last.sessionId
    /\ BagIn([session_id |-> sessionId,
              from |-> Len(history(db, sessionId))], loads)
    /\ localStorage = sessionId
    /\ subs = {}

\* a message appended by submit
Optimistic(m) == m.id[1] = "u" /\ m.message.type = "human"

\* C18: while its session is the active session no event of that session
\* (completion of the session's history load, remote delivery, send failure)
\* removes an optimistic human message from the log.
C18_OptimisticMessageStays ==
    (/\ \/ last.op \in {"deliver", "sendFailed"}
        \/ last.op = "loadResolved" /\ last.arg.session_id = last.sessionId
     /\ sessionId = last.sessionId) =>
        \A i \in 1..Len(last.messages) :
            (Optimistic(last.messages[i])
             /\ last.messages[i].session_id = sessionId)
                => \E j \in 1..Len(messages) : messages[j] = last.messages[i]

\* C19: a history fetch issued for a session other than the active one does
\* not modify the log when it completes.
C19_StaleFetchLeavesLog ==
    (last.op = "loadResolved" /\ last.arg.session_id # last.sessionId) =>
        messages = last.messages

\* C20: with the events of the runtime delivered fairly, and every dispatched
\* send either reporting failure or being answered in the session it was
\* sent in, every Awaiting state is eventually followed by Idle, whatever
\* session changes the user makes in between.
C20_AwaitingLeadsToIdle == Awaiting ~> Idle

====
